---- MODULE Spec2Model ----
(***************************************************************************)
(* A model of the dataops-pipeline-tools helpers: the BigQuery DML string  *)
(* builder (bq_dml.py) and the BigQuery field-name helpers                  *)
(* (tools/bq_data_operations.py).                                           *)
(*                                                                         *)
(* A Python str is modelled as a sequence of one-character strings, so     *)
(* that concatenation, slicing, endswith, rstrip and substring tests are   *)
(* computed character by character as the interpreter computes them.       *)
(***************************************************************************)
EXTENDS Integers, Sequences, FiniteSets, TLC

VARIABLES
    call,       \* the entry point the current run exercises
    data,       \* the Record (dict) argument of the run
    kwargs,     \* the keyword arguments of generate_sql_query
    in_str,     \* the argument of str_to_gbq_field_name
    obj,        \* the argument of to_gbq_keys
    pc,         \* position of the run inside the entry point
    out,        \* the returned str (or the returned dict entries for to_gbq_keys)
    err,        \* the exception that ended the run, "" when none
    executed,   \* statements submitted to the query service, in order
    new_obj,    \* the dict to_gbq_keys returns, as entries in insertion order
    check_for_rows, \* what run_bq_query returned for the existence SELECT
    pruned,     \* the structure drop_empty_iters returns
    total_rows  \* total_rows of the existence SELECT's result, -1 before it / when None

vars == <<call, data, kwargs, in_str, obj, pc, out, new_obj, err, executed,
          check_for_rows, pruned, total_rows>>

----------------------------------------------------------------------------
(* Python str operations on character sequences *)

EndsWith(s, suffix) ==
    /\ Len(s) >= Len(suffix)
    /\ SubSeq(s, Len(s) - Len(suffix) + 1, Len(s)) = suffix

StartsWith(s, prefix) ==
    /\ Len(s) >= Len(prefix)
    /\ SubSeq(s, 1, Len(prefix)) = prefix

\* the test "sub in s"
Contains(s, sub) ==
    \E i \in 1..(Len(s) - Len(sub) + 1) : SubSeq(s, i, i + Len(sub) - 1) = sub

\* s[:-n]
DropLast(s, n) == SubSeq(s, 1, Len(s) - n)

\* s[:n]
Take(s, n) == IF Len(s) <= n THEN s ELSE SubSeq(s, 1, n)

RECURSIVE RStrip(_, _)
\* s.rstrip(chars): drops every trailing character that belongs to chars
RStrip(s, chars) ==
    IF s # <<>> /\ s[Len(s)] \in chars THEN RStrip(DropLast(s, 1), chars) ELSE s

RECURSIVE LStrip(_, _)
LStrip(s, chars) ==
    IF s # <<>> /\ s[1] \in chars THEN LStrip(Tail(s), chars) ELSE s

RECURSIVE Join(_, _)
\* sep.join(parts)
Join(parts, sep) ==
    IF parts = <<>> THEN <<>>
    ELSE IF Len(parts) = 1 THEN parts[1]
    ELSE parts[1] \o sep \o Join(Tail(parts), sep)

DigitChars == <<"0", "1", "2", "3", "4", "5", "6", "7", "8", "9">>

RECURSIVE NatToStr(_)
NatToStr(n) ==
    IF n < 10 THEN <<DigitChars[n + 1]>>
    ELSE NatToStr(n \div 10) \o <<DigitChars[(n % 10) + 1]>>

\* str(n) of a Python int
IntToStr(n) == IF n < 0 THEN <<"-">> \o NatToStr(-n) ELSE NatToStr(n)

\* zero-padded decimal of width w, as strftime's %Y %m %d %H %M %S
RECURSIVE ZeroPad(_, _)
ZeroPad(n, w) ==
    IF Len(NatToStr(n)) >= w THEN NatToStr(n)
    ELSE <<"0">> \o ZeroPad(n, w - 1)

----------------------------------------------------------------------------
(* Python values.  Every value is a record of one shape; t is its type:    *)
(* "str" (s), "int" (n), "bool" (n is 0 or 1), "float" (n tenths),         *)
(* "none", "datetime" (dt = <<Y, m, d, H, M, S>>), "list" (items) and      *)
(* "dict" (items, each carrying its key in k, in insertion order).         *)

Node(t, n, s, dt, items) ==
    [t |-> t, k |-> <<>>, n |-> n, s |-> s, dt |-> dt, items |-> items]

PyStr(s)      == Node("str", 0, s, <<>>, <<>>)
PyInt(n)      == Node("int", n, <<>>, <<>>, <<>>)
PyBool(b)     == Node("bool", IF b THEN 1 ELSE 0, <<>>, <<>>, <<>>)
PyFloat(n)    == Node("float", n, <<>>, <<>>, <<>>)
PyNone        == Node("none", 0, <<>>, <<>>, <<>>)
PyDatetime(d) == Node("datetime", 0, <<>>, d, <<>>)
PyList(items) == Node("list", 0, <<>>, <<>>, items)
PyDict(items) == Node("dict", 0, <<>>, <<>>, items)
\* the entry key: value of a dict
Entry(key, value) == [value EXCEPT !.k = key]

\* isinstance(value, int): bool is a subclass of int
IsInt(v) == v.t \in {"int", "bool"}

\* bool(value)
Truthy(v) ==
    CASE v.t = "str"      -> v.s # <<>>
      [] v.t = "int"      -> v.n # 0
      [] v.t = "bool"     -> v.n # 0
      [] v.t = "float"    -> v.n # 0
      [] v.t = "none"     -> FALSE
      [] v.t = "datetime" -> TRUE
      [] v.t = "list"     -> v.items # <<>>
      [] v.t = "dict"     -> v.items # <<>>

\* value.strftime("%Y-%m-%dT%H:%M:%SZ")
Strftime(d) ==
    ZeroPad(d[1], 4) \o <<"-">> \o ZeroPad(d[2], 2) \o <<"-">> \o ZeroPad(d[3], 2)
    \o <<"T">> \o ZeroPad(d[4], 2) \o <<":">> \o ZeroPad(d[5], 2) \o <<":">>
    \o ZeroPad(d[6], 2) \o <<"Z">>

\* str(datetime) with no microseconds
DatetimeStr(d) ==
    ZeroPad(d[1], 4) \o <<"-">> \o ZeroPad(d[2], 2) \o <<"-">> \o ZeroPad(d[3], 2)
    \o <<" ">> \o ZeroPad(d[4], 2) \o <<":">> \o ZeroPad(d[5], 2) \o <<":">>
    \o ZeroPad(d[6], 2)

\* repr(float) of a non-negative number of tenths
FloatStr(n) == NatToStr(n \div 10) \o <<".">> \o NatToStr(n % 10)

RECURSIVE Str(_), Repr(_), ReprItems(_), ReprEntries(_)
\* str(value), which is what an f-string's {value} renders
Str(v) ==
    CASE v.t = "str"      -> v.s
      [] v.t = "int"      -> IntToStr(v.n)
      [] v.t = "bool"     -> IF v.n = 1 THEN <<"T", "r", "u", "e">> ELSE <<"F", "a", "l", "s", "e">>
      [] v.t = "float"    -> FloatStr(v.n)
      [] v.t = "none"     -> <<"N", "o", "n", "e">>
      [] v.t = "datetime" -> DatetimeStr(v.dt)
      [] v.t = "list"     -> <<"[">> \o Join(ReprItems(v.items), <<",", " ">>) \o <<"]">>
      [] v.t = "dict"     -> <<"{">> \o Join(ReprEntries(v.items), <<",", " ">>) \o <<"}">>

\* repr(value) as str() of a container renders its members
Repr(v) ==
    CASE v.t = "str"      -> <<"'">> \o v.s \o <<"'">>
      [] v.t = "datetime" ->
            <<"d", "a", "t", "e", "t", "i", "m", "e", ".", "d", "a", "t", "e", "t", "i", "m", "e", "(">>
            \o Join(<<NatToStr(v.dt[1]), NatToStr(v.dt[2]), NatToStr(v.dt[3]),
                      NatToStr(v.dt[4]), NatToStr(v.dt[5]), NatToStr(v.dt[6])>>, <<",", " ">>)
            \o <<")">>
      [] OTHER            -> Str(v)

ReprItems(items) ==
    IF items = <<>> THEN <<>> ELSE <<Repr(Head(items))>> \o ReprItems(Tail(items))

ReprEntries(items) ==
    IF items = <<>> THEN <<>>
    ELSE <<(<<"'">> \o Head(items).k \o <<"'", ":", " ">> \o Repr(Head(items)))>>
         \o ReprEntries(Tail(items))

----------------------------------------------------------------------------
(* BigQueryDML: the table identity bound at construction *)

bq_project == <<"p">>
bq_dataset == <<"d">>
bq_table   == <<"t">>

\* self.table_ref
table_ref == bq_project \o <<".">> \o bq_dataset \o <<".">> \o bq_table

\* __check_timestamp(timestamp)
check_timestamp(timestamp) ==
    IF timestamp # <<>> THEN <<"\"">> \o timestamp \o <<"\"">> ELSE <<"N", "U", "L", "L">>

RECURSIVE ColumnsLoop(_, _)
\* the for loop of parse_insert_columns over data.items()
ColumnsLoop(items, key_string) ==
    IF items = <<>> THEN key_string
    ELSE ColumnsLoop(Tail(items), key_string \o Head(items).k \o <<",", " ">>)

\* parse_insert_columns(data, base_string=base_string)
parse_insert_columns(d, base_string) ==
    LET key_string == ColumnsLoop(d.items, base_string)
    IN  IF EndsWith(key_string, <<",", " ">>)
        THEN DropLast(key_string, 2) \o <<")", " ">>
        ELSE key_string

RECURSIVE parse_insert_values(_, _), ValuesLoop(_, _), InsertValue(_), InsertListLoop(_, _)

\* what one iteration of the loop of parse_insert_values appends for value
InsertValue(value) ==
    CASE value.t = "str" ->
            (IF Contains(value.s, <<"h", "t", "t", "p", "s", ":", "/", "/">>)
             THEN <<"\"">> \o value.s \o <<"\"">>
             ELSE value.s) \o <<",", " ">>
      [] value.t = "datetime" ->
            check_timestamp(Strftime(value.dt)) \o <<",", " ">>
      [] IsInt(value) ->
            Str(value) \o <<",", " ">>
      [] value.t = "list" ->
            LET child == InsertListLoop(value.items, <<"[">>)
            IN  (IF EndsWith(child, <<",", " ">>) THEN DropLast(child, 2) ELSE child)
                \o <<"]", ",", " ">>
      [] value.t = "dict" ->
            LET child == parse_insert_values(value, <<>>)
            IN  <<"(">>
                \o (IF EndsWith(child, <<",", " ">>) THEN DropLast(child, 2) ELSE child)
                \o <<")", ",", " ">>
      [] OTHER ->
            <<"N", "U", "L", "L", ",", " ">>

\* the inner loop over the members of a list value
InsertListLoop(items, child) ==
    IF items = <<>> THEN child
    ELSE InsertListLoop(
            Tail(items),
            IF Head(items).t = "dict"
            THEN child \o <<"(">>
                 \o RStrip(parse_insert_values(Head(items), <<>>), {",", " "})
                 \o <<")", ",", " ">>
            ELSE child \o Str(Head(items)) \o <<",", " ">>)

RECURSIVE ValuesLoop_SkipsTruthyOther(_, _)
\* ValuesLoop with the final branch guarded as in the UPDATE builder
\* (elif not value), so that a truthy value of another type appends nothing
ValuesLoop_SkipsTruthyOther(items, values) ==
    IF items = <<>> THEN values
    ELSE ValuesLoop_SkipsTruthyOther(
            Tail(items),
            IF Head(items).t = "float" /\ Truthy(Head(items))
            THEN values
            ELSE values \o InsertValue(Head(items)))

\* the for loop of parse_insert_values over data.items()
ValuesLoop(items, values) ==
    IF items = <<>> THEN values
    ELSE ValuesLoop(Tail(items), values \o InsertValue(Head(items)))

\* parse_insert_values(data, base_string=base_string)
parse_insert_values(d, base_string) == ValuesLoop(d.items, base_string)

\* parse_insert_query_data(data)
parse_insert_query_data(d) ==
    LET query_first_half  == <<"I", "N", "S", "E", "R", "T", " ", "U+0060">> \o table_ref \o <<"U+0060", " ", "(">>
        query_second_half == <<"V", "A", "L", "U", "E", "S", "(">>
        keys   == parse_insert_columns(d, query_first_half)
        values == parse_insert_values(d, query_second_half)
    IN  keys
        \o (IF EndsWith(values, <<",", " ">>) THEN DropLast(values, 2) ELSE values)
        \o <<")">>

RECURSIVE parse_update_query_data(_, _, _), UpdateLoop(_, _, _), UpdateListLoop(_, _)

\* the value of query after one iteration of the loop of parse_update_query_data
UpdateValue(entry, parent_key, query) ==
    LET key   == IF parent_key # <<>> THEN parent_key \o <<".">> \o entry.k ELSE entry.k
        value == entry
    IN  CASE value.t = "str" ->
                query \o key \o <<" ", "=", " ">>
                \o (IF Contains(value.s, <<"h", "t", "t", "p", "s", ":", "/", "/">>)
                    THEN <<"\"">> \o value.s \o <<"\"">>
                    ELSE value.s)
                \o <<",", " ">>
          [] IsInt(value) ->
                query \o key \o <<" ", "=", " ">> \o Str(value) \o <<",", " ">>
          [] value.t = "datetime" ->
                query \o key \o <<" ", "=", " ", "T", "I", "M", "E", "S", "T", "A", "M", "P", "(">>
                \o check_timestamp(Strftime(value.dt)) \o <<")", ",", " ">>
          [] value.t = "list" ->
                LET string == UpdateListLoop(value.items, <<>>)
                    formatted_string == RStrip(Join(string, <<",", " ">>), {",", " "})
                IN  query \o key \o <<" ", "=", " ", "[">> \o formatted_string \o <<"]", ",", " ">>
          [] value.t = "dict" ->
                parse_update_query_data(value, key, query)
          [] OTHER ->
                IF ~Truthy(value) THEN query \o key \o <<" ", "=", " ", "N", "U", "L", "L", ",", " ">> ELSE query

\* the inner loop over the members of a list value; the result of
\* child.rstrip(", ") is dropped by the code, so child is appended unstripped
UpdateListLoop(items, string) ==
    IF items = <<>> THEN string
    ELSE UpdateListLoop(
            Tail(items),
            IF Head(items).t = "dict"
            THEN Append(string,
                        parse_update_query_data(Head(items), <<>>, <<"S", "T", "R", "U", "C", "T", "(">>)
                        \o <<")", ",", " ">>)
            ELSE Append(string, Str(Head(items))))

\* the for loop of parse_update_query_data over data.items()
UpdateLoop(items, parent_key, query) ==
    IF items = <<>> THEN query
    ELSE UpdateLoop(Tail(items), parent_key, UpdateValue(Head(items), parent_key, query))

\* parse_update_query_data(data, parent_key=parent_key, current_query=current_query);
\* an absent (None) or empty keyword argument is <<>>
parse_update_query_data(d, parent_key, current_query) ==
    LET query == IF current_query # <<>>
                 THEN current_query
                 ELSE <<"U", "P", "D", "A", "T", "E", " ">> \o table_ref \o <<" ", "S", "E", "T", " ">>
    IN  UpdateLoop(d.items, parent_key, query)

\* an optional str keyword argument: None when absent
NoneArg      == [some |-> FALSE, s |-> <<>>]
StrArg(text) == [some |-> TRUE, s |-> text]
\* the test 'if arg:' of an optional str: neither None nor empty
ArgTruthy(arg) == arg.some /\ arg.s # <<>>

\* the outcome of a call: the returned str, or the exception raised
Return(text) == [err |-> "", ret |-> text]
Raise(name)  == [err |-> name, ret |-> <<>>]

\* SelectQuery with the first test lacking its "and not query_where"
SelectQuery_SelectorShadowsWhere(query_select, query_where) ==
    IF ArgTruthy(query_select) THEN
        <<"S", "E", "L", "E", "C", "T", " ">> \o query_select.s \o <<" ", "F", "R", "O", "M", " ">> \o table_ref
    ELSE IF ArgTruthy(query_where) THEN
        <<"S", "E", "L", "E", "C", "T", " ", "*", " ", "F", "R", "O", "M", " ">> \o table_ref \o <<" ">> \o query_where.s
    ELSE
        <<"S", "E", "L", "E", "C", "T", " ", "*", " ", "F", "R", "O", "M", " ">> \o table_ref

\* lines 308-318: the SELECT statement of generate_sql_query
SelectQuery(query_select, query_where) ==
    IF ArgTruthy(query_select) /\ ~ArgTruthy(query_where) THEN
        <<"S", "E", "L", "E", "C", "T", " ">> \o query_select.s \o <<" ", "F", "R", "O", "M", " ">> \o table_ref
    ELSE IF ~ArgTruthy(query_select) /\ ArgTruthy(query_where) THEN
        <<"S", "E", "L", "E", "C", "T", " ", "*", " ", "F", "R", "O", "M", " ">> \o table_ref \o <<" ">> \o query_where.s
    ELSE IF ArgTruthy(query_select) /\ ArgTruthy(query_where) THEN
        <<"S", "E", "L", "E", "C", "T", " ">> \o query_select.s \o <<" ", "F", "R", "O", "M", " ">> \o table_ref
        \o <<" ">> \o query_where.s
    ELSE
        <<"S", "E", "L", "E", "C", "T", " ", "*", " ", "F", "R", "O", "M", " ">> \o table_ref

\* UnknownQueryType falling back to the default statement instead of raising
UnknownQueryType_FallsBack == Return(<<"S", "E", "L", "E", "C", "T", " ", "*", " ", "F", "R", "O", "M", " ">> \o table_ref)

\* lines 338-339: the query_type is none of SELECT, INSERT, UPDATE
UnknownQueryType == Raise("ValueError")

\* generate_sql_query(**kwargs)
generate_sql_query(kw) ==
    LET d            == kw.data
        query_type   == IF kw.query_type.some THEN kw.query_type.s ELSE <<"S", "E", "L", "E", "C", "T">>
        query_select == kw.query_selector
        query_where  == kw.query_where
    IN  IF query_type = <<"S", "E", "L", "E", "C", "T">> THEN
            Return(SelectQuery(query_select, query_where))
        ELSE IF query_type = <<"I", "N", "S", "E", "R", "T">> THEN
            \* data.items() of a missing (None) payload
            IF d.t # "dict" THEN Raise("AttributeError")
            ELSE Return(parse_insert_query_data(d))
        ELSE IF query_type = <<"U", "P", "D", "A", "T", "E">> THEN
            IF d.t # "dict" THEN Raise("AttributeError")
            ELSE
                LET q     == parse_update_query_data(d, <<>>, <<>>)
                    query == IF EndsWith(q, <<",", " ">>) THEN DropLast(q, 2) ELSE q
                IN  IF ArgTruthy(query_where)
                    THEN Return(query \o <<" ">> \o query_where.s)
                    ELSE Return(query)
        ELSE
            UnknownQueryType

\* the keyword arguments of a call; query_select is the name the docstring
\* gives the select list, which the body never reads
Kwargs(qt, selector, where, select, d) ==
    [query_type |-> qt, query_selector |-> selector, query_where |-> where,
     query_select |-> select, data |-> d]

NoKwargs == Kwargs(NoneArg, NoneArg, NoneArg, NoneArg, PyNone)

\* 'id' in data
HasKey(d, key) == \E i \in 1..Len(d.items) : d.items[i].k = key
\* data['id']
GetItem(d, key) == d.items[CHOOSE i \in 1..Len(d.items) : d.items[i].k = key]

\* f"WHERE id = {data['id']}"
WhereId(d) == <<"W", "H", "E", "R", "E", " ", "i", "d", " ", "=", " ">> \o Str(GetItem(d, <<"i", "d">>))

\* the search query of insert_or_update
SearchQuery(d) ==
    generate_sql_query(Kwargs(StrArg(<<"S", "E", "L", "E", "C", "T">>), NoneArg, StrArg(WhereId(d)),
                              NoneArg, PyNone)).ret

\* the statement insert_record(data) submits
InsertQuery(d) ==
    generate_sql_query(Kwargs(StrArg(<<"I", "N", "S", "E", "R", "T">>), NoneArg, NoneArg, NoneArg, d)).ret

\* the statement update_record(data) submits
UpdateQuery(d) ==
    generate_sql_query(Kwargs(StrArg(<<"U", "P", "D", "A", "T", "E">>), NoneArg, StrArg(WhereId(d)),
                              NoneArg, d)).ret

\* UpsertStatement with the test on total_rows inverted
UpsertStatement_Inverted(d, rows) == IF rows # 0 THEN InsertQuery(d) ELSE UpdateQuery(d)

\* the branch of insert_or_update on check_for_rows.total_rows
UpsertStatement(d, rows) == IF rows = 0 THEN InsertQuery(d) ELSE UpdateQuery(d)

\* the message insert_or_update returns; found is the truth value of the
\* DML call's result (None after NotFound)
UpsertMessage(d, rows, found) ==
    (IF rows = 0 THEN <<"I", "N", "S", "E", "R", "T">> ELSE <<"U", "P", "D", "A", "T", "E">>)
    \o (IF found THEN <<" ", "s", "u", "c", "c", "e", "s", "s", "f", "u", "l">> ELSE <<" ", "f", "a", "i", "l", "e", "d">>)
    \o <<" ", "f", "o", "r", " ", "t", "i", "c", "k", "e", "t", " ", "m", "e", "t", "r", "i", "c", " ">> \o Str(GetItem(d, <<"i", "d">>))

----------------------------------------------------------------------------
(* tools/bq_data_operations.py *)

\* a character outside ASCII letters and digits may be written by its code point
AsciiLetters    == {"a", "b", "Z"}
UnicodeLetters  == {"U+00E9"}
AsciiDigits     == {"0", "1", "2", "3", "4", "5", "6", "7", "8", "9"}
Whitespace      == {" ", "\t", "\n"}

\* char.isalnum()
IsAlnum(c) == c \in AsciiLetters \cup UnicodeLetters \cup AsciiDigits
\* re.match(r"\d", c)
IsDigit(c) == c \in AsciiDigits

\* in_str.strip()
Strip(s) == RStrip(LStrip(s, Whitespace), Whitespace)

MaxFieldLen == 128

\* str_to_gbq_field_name(in_str), for a str argument
str_to_gbq_field_name(s) ==
    LET stripped == Strip(s)
        tmp_str  == [i \in 1..Len(stripped) |->
                        IF IsAlnum(stripped[i]) THEN stripped[i] ELSE "_"]
    IN  IF tmp_str = <<>> THEN Raise("IndexError")     \* tmp_str[0]
        ELSE LET gbq_str == IF IsDigit(tmp_str[1]) THEN <<"_">> \o tmp_str ELSE tmp_str
             IN  Return(Take(gbq_str, MaxFieldLen))

\* new_obj[new_key] = value on a dict kept as its entries in insertion order
SetItem(entries, key, value) ==
    IF \E i \in 1..Len(entries) : entries[i].k = key
    THEN [i \in 1..Len(entries) |->
            IF entries[i].k = key THEN [k |-> key, v |-> value] ELSE entries[i]]
    ELSE Append(entries, [k |-> key, v |-> value])

RECURSIVE GbqKeysLoop(_, _)
\* the for loop of to_gbq_keys; an exception of str_to_gbq_field_name ends it
GbqKeysLoop(entries, acc) ==
    IF entries = <<>> THEN [err |-> "", ret |-> acc]
    ELSE LET new_key == str_to_gbq_field_name(Head(entries).k)
         IN  IF new_key.err # "" THEN [err |-> new_key.err, ret |-> <<>>]
             ELSE GbqKeysLoop(Tail(entries), SetItem(acc, new_key.ret, Head(entries).v))

\* to_gbq_keys(obj): obj and the result are dicts kept as entries [k, v]
to_gbq_keys(o) == GbqKeysLoop(o, <<>>)

\* v1 in ({}, [], None)
IsEmptyIter(v) ==
    \/ v.t = "none"
    \/ v.t \in {"list", "dict"} /\ v.items = <<>>

RECURSIVE drop_empty_iters(_), DropMembers(_), DropEntries(_)

\* line 70: the members of a list, pruned, those that are falsy left out
DropMembers(items) ==
    IF items = <<>> THEN <<>>
    ELSE LET v == drop_empty_iters(Head(items))
         IN  (IF Truthy(v) THEN <<v>> ELSE <<>>) \o DropMembers(Tail(items))

\* lines 72-74: the entries of a dict, their values pruned, those whose value
\* is {}, [] or None left out
DropEntries(items) ==
    IF items = <<>> THEN <<>>
    ELSE LET v1 == drop_empty_iters(Head(items))
         IN  (IF ~IsEmptyIter(v1) THEN <<v1>> ELSE <<>>) \o DropEntries(Tail(items))

\* drop_empty_iters(obj)
drop_empty_iters(o) ==
    IF o.t \notin {"dict", "list"} THEN o
    ELSE IF o.t = "list" THEN [o EXCEPT !.items = DropMembers(o.items)]
    ELSE [o EXCEPT !.items = DropEntries(o.items)]

----------------------------------------------------------------------------
(* The inputs of a run *)

MaxKeys      == 3    \* entries of a Record in WideRecords
MaxInnerKeys == 2    \* entries of a nested Record
MaxLen       == 2    \* members of a list value
MaxRows      == 2    \* total_rows the query service reports
MaxStrLen    == 3    \* characters of an argument of str_to_gbq_field_name
MaxObjKeys   == 2    \* entries of an argument of to_gbq_keys

\* the lists over S of at most n members
SeqsUpTo(S, n) == UNION {[1..m -> S] : m \in 0..n}

\* the dicts with keys names[1..m], m <= n, and values in S
DictsOf(names, S, n) ==
    UNION {{PyDict([i \in 1..m |-> Entry(names[i], f[i])]) : f \in [1..m -> S]}
           : m \in 0..n}

\* a datetime with no microseconds
SomeDatetime == PyDatetime(<<2021, 3, 4, 5, 6, 7>>)

Atoms ==
    {PyStr(<<>>), PyStr(<<"a", "b">>), PyStr(<<"h", "t", "t", "p", "s", ":", "/", "/", "u">>), PyStr(<<"a", ",", " ", "b">>),
     PyInt(0), PyInt(42), PyInt(-7), PyBool(TRUE), PyBool(FALSE),
     PyFloat(15), PyFloat(0), PyNone, SomeDatetime}

InnerAtoms == {PyInt(1), PyStr(<<>>), PyStr(<<"h", "t", "t", "p", "s", ":", "/", "/", "u">>), PyNone, PyFloat(15)}

\* {"x": 1}, {"c": 2}, {}
DictX1  == PyDict(<<Entry(<<"x">>, PyInt(1))>>)
DictC2  == PyDict(<<Entry(<<"c">>, PyInt(2))>>)
\* {"x": 1, "y": ""} and {"x": {"c": 2}, "y": 3}
DictXY  == PyDict(<<Entry(<<"x">>, PyInt(1)), Entry(<<"y">>, PyStr(<<>>))>>)
DictDeep == PyDict(<<Entry(<<"x">>, DictC2), Entry(<<"y">>, PyInt(3))>>)
\* [{"x": 1}, 2]
ListX1_2 == PyList(<<DictX1, PyInt(2)>>)

ListItems == InnerAtoms \cup {DictX1, DictXY, DictDeep, PyDict(<<>>)}
Lists     == {PyList(items) : items \in SeqsUpTo(ListItems, MaxLen)}

InnerNames  == <<<<"x">>, <<"y">>, <<"z">>, <<"w">>>>
NestedDicts ==
    DictsOf(InnerNames, InnerAtoms \cup {DictC2, DictDeep, ListX1_2}, MaxInnerKeys)

RichValues == Atoms \cup Lists \cup NestedDicts

\* one value of every kind, alone and followed by a sibling
RichRecords ==
    {PyDict(<<Entry(<<"k">>, v)>>) : v \in RichValues}
    \cup {PyDict(<<Entry(<<"k">>, v), Entry(<<"b">>, PyInt(7))>>) : v \in RichValues}

KeyNames   == <<<<"i", "d">>, <<"a">>, <<"b">>, <<"c">>, <<"d">>>>
CoreValues == {PyInt(42), PyStr(<<>>), PyFloat(15), PyNone, DictC2, ListX1_2}
\* Records of up to MaxKeys entries
WideRecords == DictsOf(KeyNames, CoreValues, MaxKeys)

\* {"a": 1, "b": {"c": 2}}
NestedExample == PyDict(<<Entry(<<"a">>, PyInt(1)), Entry(<<"b">>, DictC2)>>)

Records == RichRecords \cup WideRecords \cup {NestedExample}

QueryTypes ==
    {NoneArg, StrArg(<<"S", "E", "L", "E", "C", "T">>), StrArg(<<"I", "N", "S", "E", "R", "T">>), StrArg(<<"U", "P", "D", "A", "T", "E">>),
     StrArg(<<"D", "E", "L", "E", "T", "E">>), StrArg(<<"s", "e", "l", "e", "c", "t">>), StrArg(<<>>)}
Selectors == {NoneArg, StrArg(<<>>), StrArg(<<"i", "d">>), StrArg(<<"i", "d", ",", " ", "a">>)}
Wheres    == {NoneArg, StrArg(<<>>), StrArg(<<"W", "H", "E", "R", "E", " ", "i", "d", " ", "=", " ", "1">>)}
Payloads  == {PyNone} \cup DictsOf(KeyNames, CoreValues, 1)

KwargsSet ==
    {Kwargs(qt, sel, wh, doc, d) :
        qt \in QueryTypes, sel \in Selectors, wh \in Wheres,
        doc \in {NoneArg, StrArg(<<"i", "d">>)}, d \in Payloads}

GbqAlphabet == {"a", "7", " ", "-", "_", "U+00E9"}
Repeat(c, n) == [i \in 1..n |-> c]
LongStrings ==
    UNION {{Repeat("7", n), Repeat("a", n), <<" ">> \o Repeat("7", n) \o <<" ">>}
           : n \in (MaxFieldLen - 1)..(MaxFieldLen + 2)}
InStrings == SeqsUpTo(GbqAlphabet, MaxStrLen) \cup LongStrings

ObjKeys == SeqsUpTo({"a", "7", " ", "_"}, 2)
\* dicts of at most MaxObjKeys entries with distinct keys; the i-th value is i
Objs ==
    {[i \in 1..Len(ks) |-> [k |-> ks[i], v |-> i]] :
        ks \in {s \in SeqsUpTo(ObjKeys, MaxObjKeys) :
                    \A i, j \in 1..Len(s) : i # j => s[i] # s[j]}}

\* arguments of drop_empty_iters: scalars, and lists and dicts over scalars
\* and small containers
DropAtoms ==
    {PyInt(0), PyInt(1), PyBool(FALSE), PyStr(<<>>), PyStr(<<"a", "b">>), PyNone}
DropInner ==
    DropAtoms
    \cup {PyList(<<>>), PyDict(<<>>), PyList(<<PyNone>>), PyList(<<PyInt(0)>>),
          PyDict(<<Entry(<<"c">>, PyList(<<>>))>>),
          PyDict(<<Entry(<<"c">>, PyInt(0))>>),
          PyList(<<PyDict(<<Entry(<<"c">>, PyNone)>>), PyInt(1)>>)}
DropInputs ==
    DropAtoms
    \cup {PyList(items) : items \in SeqsUpTo(DropInner, MaxLen)}
    \cup DictsOf(InnerNames, DropInner, MaxInnerKeys)

----------------------------------------------------------------------------
(* Runs *)

Fresh ==
    /\ pc = "start" /\ out = <<>> /\ new_obj = <<>> /\ err = ""
    /\ executed = <<>> /\ total_rows = -1
    /\ check_for_rows = "unset" /\ pruned = PyNone

Init ==
    /\ Fresh
    /\ \/ /\ call \in {"parse_insert_query_data", "parse_insert_values",
                       "parse_insert_columns", "parse_update_query_data",
                       "insert_or_update"}
          /\ data \in Records
          /\ kwargs = NoKwargs /\ in_str = <<>> /\ obj = <<>>
       \/ /\ call = "generate_sql_query"
          /\ kwargs \in KwargsSet
          /\ data = PyNone /\ in_str = <<>> /\ obj = <<>>
       \/ /\ call = "str_to_gbq_field_name"
          /\ in_str \in InStrings
          /\ data = PyNone /\ kwargs = NoKwargs /\ obj = <<>>
       \/ /\ call = "to_gbq_keys"
          /\ obj \in Objs
          /\ data = PyNone /\ kwargs = NoKwargs /\ in_str = <<>>
       \/ /\ call = "drop_empty_iters"
          /\ data \in DropInputs
          /\ kwargs = NoKwargs /\ in_str = <<>> /\ obj = <<>>

\* a call that returns or raises in one step
Finish(result) ==
    /\ pc' = "done"
    /\ out' = result.ret
    /\ err' = result.err
    /\ UNCHANGED <<call, data, kwargs, in_str, obj, new_obj, executed, total_rows,
                   check_for_rows, pruned>>

ParseInsertQueryData ==
    /\ pc = "start" /\ call = "parse_insert_query_data"
    /\ Finish(Return(parse_insert_query_data(data)))

ParseInsertValues ==
    /\ pc = "start" /\ call = "parse_insert_values"
    /\ Finish(Return(parse_insert_values(data, <<>>)))

ParseInsertColumns ==
    /\ pc = "start" /\ call = "parse_insert_columns"
    /\ Finish(Return(parse_insert_columns(data, <<"(">>)))

ParseUpdateQueryData ==
    /\ pc = "start" /\ call = "parse_update_query_data"
    /\ Finish(Return(parse_update_query_data(data, <<>>, <<>>)))

GenerateSqlQuery ==
    /\ pc = "start" /\ call = "generate_sql_query"
    /\ Finish(generate_sql_query(kwargs))

StrToGbqFieldName ==
    /\ pc = "start" /\ call = "str_to_gbq_field_name"
    /\ Finish(str_to_gbq_field_name(in_str))

ToGbqKeys ==
    /\ pc = "start" /\ call = "to_gbq_keys"
    /\ LET result == to_gbq_keys(obj)
       IN  /\ pc' = "done"
           /\ new_obj' = result.ret
           /\ err' = result.err
    /\ UNCHANGED <<call, data, kwargs, in_str, obj, out, executed, total_rows,
                   check_for_rows, pruned>>

DropEmptyIters ==
    /\ pc = "start" /\ call = "drop_empty_iters"
    /\ pc' = "done"
    /\ pruned' = drop_empty_iters(data)
    /\ UNCHANGED <<call, data, kwargs, in_str, obj, out, new_obj, err, executed,
                   check_for_rows, total_rows>>

(* insert_or_update(data).  run_bq_query submits the statement             *)
(* (client.query) and waits for its result: a RowIterator, None when the   *)
(* service raises NotFound, and any other service error propagates.        *)

\* lines 417-423: the search query is built and submitted
SubmitSearch ==
    /\ pc = "start" /\ call = "insert_or_update"
    /\ IF HasKey(data, <<"i", "d">>)
       THEN /\ executed' = Append(executed, SearchQuery(data))
            /\ pc' = "search"
            /\ err' = err
       ELSE /\ err' = "KeyError"
            /\ pc' = "done"
            /\ executed' = executed
    /\ UNCHANGED <<call, data, kwargs, in_str, obj, out, new_obj, total_rows,
                   check_for_rows, pruned>>

\* lines 353-361 for the search query, then line 425 and the DML statement's
\* build and submission (lines 428/438, 375-377, 393-399)
SearchResult ==
    /\ pc = "search"
    /\ \/ \E n \in 0..MaxRows :
            /\ check_for_rows' = "RowIterator"
            /\ total_rows' = n
            /\ executed' = Append(executed, UpsertStatement(data, n))
            /\ pc' = "dml"
            /\ err' = err
       \/ \* NotFound: check_for_rows is None, and None has no total_rows
          /\ check_for_rows' = "None"
          /\ err' = "AttributeError"
          /\ pc' = "done"
          /\ UNCHANGED <<executed, total_rows>>
       \/ \* another service error propagates
          /\ check_for_rows' = "raised"
          /\ err' = "GoogleAPIError"
          /\ pc' = "done"
          /\ UNCHANGED <<executed, total_rows>>
    /\ UNCHANGED <<call, data, kwargs, in_str, obj, out, new_obj, pruned>>

\* lines 353-361 for the DML statement, then lines 430-445
DmlResult ==
    /\ pc = "dml"
    /\ \/ \E found \in BOOLEAN :
            /\ out' = UpsertMessage(data, total_rows, found)
            /\ err' = err
       \/ /\ err' = "GoogleAPIError"
          /\ out' = out
    /\ pc' = "done"
    /\ UNCHANGED <<call, data, kwargs, in_str, obj, new_obj, executed, total_rows,
                   check_for_rows, pruned>>

Next ==
    \/ ParseInsertQueryData
    \/ ParseInsertValues
    \/ ParseInsertColumns
    \/ ParseUpdateQueryData
    \/ GenerateSqlQuery
    \/ StrToGbqFieldName
    \/ ToGbqKeys
    \/ DropEmptyIters
    \/ SubmitSearch
    \/ SearchResult
    \/ DmlResult

Spec == Init /\ [][Next]_vars

----------------------------------------------------------------------------
(* Reading a built statement back: its top-level positions *)

Openers == {"(", "[", "{"}
Closers == {")", "]", "}"}

RECURSIVE SplitScan(_, _, _, _, _)
SplitScan(text, i, depth, cur, acc) ==
    IF i > Len(text) THEN Append(acc, cur)
    ELSE IF depth = 0 /\ text[i] = "," /\ i < Len(text) /\ text[i + 1] = " "
    THEN SplitScan(text, i + 2, 0, <<>>, Append(acc, cur))
    ELSE SplitScan(text, i + 1,
                   depth + (IF text[i] \in Openers THEN 1
                            ELSE IF text[i] \in Closers THEN -1 ELSE 0),
                   Append(cur, text[i]), acc)

\* the pieces of text between the ", " separators that lie outside every bracket
TopLevelSplit(text) == SplitScan(text, 1, 0, <<>>, <<>>)

\* index of the first occurrence of sub in s, 0 when there is none
Find(s, sub) ==
    IF Contains(s, sub)
    THEN CHOOSE i \in 1..(Len(s) - Len(sub) + 1) :
            /\ SubSeq(s, i, i + Len(sub) - 1) = sub
            /\ \A j \in 1..(i - 1) : SubSeq(s, j, j + Len(sub) - 1) # sub
    ELSE 0

InsertHead == <<"I", "N", "S", "E", "R", "T", " ", "U+0060">> \o table_ref \o <<"U+0060", " ", "(">>
UpdateHead == <<"U", "P", "D", "A", "T", "E", " ">> \o table_ref \o <<" ", "S", "E", "T", " ">>

\* the text inside the column list's parentheses and inside VALUES( ) of an
\* INSERT statement; closed tells whether the column list is closed by ") "
InsertParts(q) ==
    LET rest == SubSeq(q, Len(InsertHead) + 1, Len(q))
        i    == Find(rest, <<")", " ", "V", "A", "L", "U", "E", "S", "(">>)
    IN  IF i > 0
        THEN [closed |-> TRUE,
              cols   |-> SubSeq(rest, 1, i - 1),
              vals   |-> SubSeq(rest, i + 9, Len(rest) - 1)]
        ELSE [closed |-> FALSE,
              cols   |-> <<>>,
              vals   |-> SubSeq(rest, Len(<<"V", "A", "L", "U", "E", "S", "(">>) + 1, Len(rest) - 1)]

\* text that holds neither the separator ", " nor a bracket
PlainText(text) ==
    /\ ~Contains(text, <<",", " ">>)
    /\ \A i \in 1..Len(text) : text[i] \notin Openers \cup Closers

RECURSIVE Plain(_)
\* a value none of whose keys and str values, at any depth, holds the
\* separator or a bracket
Plain(v) ==
    /\ PlainText(v.k)
    /\ v.t = "str" => PlainText(v.s)
    /\ \A i \in 1..Len(v.items) : Plain(v.items[i])

Keys(d)   == [i \in 1..Len(d.items) |-> d.items[i].k]
\* what the INSERT value builder renders for one value, without the separator
Formatted(v) == DropLast(InsertValue(v), 2)

Done(name) == pc = "done" /\ call = name

----------------------------------------------------------------------------
(* C1 *)

IsSelect(q) == StartsWith(q, <<"S", "E", "L", "E", "C", "T", " ">>)
IsInsert(q) == StartsWith(q, <<"I", "N", "S", "E", "R", "T", " ">>)
IsUpdate(q) == StartsWith(q, <<"U", "P", "D", "A", "T", "E", " ">>)

\* C1: in a run of insert_or_update whose existence SELECT returned a result,
\* exactly two statements are submitted: first the SELECT on the table with
\* WHERE id = <data['id']>, then one DML statement, the INSERT built from data
\* if and only if the SELECT reported zero rows and otherwise the UPDATE built
\* from data with the same WHERE clause; at no time is a DML statement
\* submitted before the SELECT or a third statement submitted.
C1_SelectThenOneDml ==
    call = "insert_or_update" =>
        /\ Len(executed) <= 2
        /\ Len(executed) >= 1 =>
              executed[1] = <<"S", "E", "L", "E", "C", "T", " ", "*", " ", "F", "R", "O", "M", " ">> \o table_ref \o <<" ">> \o WhereId(data)
        /\ total_rows >= 0 =>
              /\ Len(executed) = 2
              /\ ~IsSelect(executed[2])
              /\ IsInsert(executed[2]) <=> total_rows = 0
              /\ IsUpdate(executed[2]) <=> total_rows # 0
              /\ total_rows = 0 => executed[2] = parse_insert_query_data(data)
              /\ total_rows # 0 =>
                    /\ StartsWith(executed[2], UpdateHead)
                    /\ EndsWith(executed[2], <<" ">> \o WhereId(data))
        /\ Len(executed) = 2 => total_rows >= 0

C1_Witness ==
    /\ Done("insert_or_update")
    /\ total_rows = 0
    /\ Len(executed) = 2
    /\ IsSelect(executed[1])
    /\ IsInsert(executed[2])
    /\ Len(data.items) >= 2

----------------------------------------------------------------------------
(* C2 *)

\* the column list and the value tuple of the statement in out have one
\* top-level position per entry of data, the i-th column being the i-th key
\* and the i-th value position the formatting of the i-th value
ColumnsAlignWithValues ==
    LET parts == InsertParts(out)
        n     == Len(data.items)
    IN  /\ StartsWith(out, InsertHead)
        /\ EndsWith(out, <<")">>)
        /\ IF n = 0
           THEN parts.cols = <<>> /\ parts.vals = <<>>
           ELSE /\ TopLevelSplit(parts.cols) = Keys(data)
                /\ TopLevelSplit(parts.vals) =
                      [i \in 1..n |-> Formatted(data.items[i])]

\* C2 as stated: for any Record with keys k1..kn, the column list and the
\* value tuple of the statement parse_insert_query_data builds have the same
\* number n of top-level positions, the i-th value position being the
\* formatting of the value stored under ki.
C2_Original ==
    Done("parse_insert_query_data") => ColumnsAlignWithValues

\* C2, amended: the same, for every Record none of whose keys and str values
\* holds the separator ", " or a bracket (a str value is emitted unescaped, so
\* one that holds the separator adds a top-level position).
C2_ColumnsAlignWithValues ==
    (Done("parse_insert_query_data") /\ Plain(data)) => ColumnsAlignWithValues

C2_Witness ==
    /\ Done("parse_insert_query_data")
    /\ Plain(data)
    /\ Len(data.items) = 2
    /\ data.items[1].t = "list"
    /\ Len(data.items[1].items) = 2
    /\ Len(TopLevelSplit(InsertParts(out).cols)) = 2
    /\ Len(TopLevelSplit(InsertParts(out).vals)) = 2

----------------------------------------------------------------------------
(* C3 - C6: the builders on values of every kind *)

\* a value that is no str, int, datetime, list or dict
Unsupported(v) == v.t \notin {"str", "int", "bool", "datetime", "list", "dict"}

\* the assignments of an UPDATE statement's SET clause, as built by
\* parse_update_query_data (every assignment followed by ", ")
UpdateAssignments(q) ==
    LET body == SubSeq(q, Len(UpdateHead) + 1, Len(q))
    IN  IF body = <<>> THEN <<>>
        ELSE TopLevelSplit(IF EndsWith(body, <<",", " ">>) THEN DropLast(body, 2) ELSE body)

\* C3: a value of an unsupported type (a float, None) never makes a builder
\* fail and is rendered as NULL: the INSERT value builder has NULL at its
\* position, and the UPDATE builder has the assignment key = NULL for its key.
C3_UnsupportedRendersNull ==
    Plain(data) =>
        /\ Done("parse_insert_query_data") =>
              /\ err = ""
              /\ \A i \in 1..Len(data.items) :
                    Unsupported(data.items[i]) =>
                        TopLevelSplit(InsertParts(out).vals)[i] = <<"N", "U", "L", "L">>
        /\ Done("parse_update_query_data") =>
              /\ err = ""
              /\ \A i \in 1..Len(data.items) :
                    Unsupported(data.items[i]) =>
                        \E j \in 1..Len(UpdateAssignments(out)) :
                            UpdateAssignments(out)[j] = data.items[i].k \o <<" ", "=", " ", "N", "U", "L", "L">>

\* {"k": [{"x": 1}]}
StructExample == PyDict(<<Entry(<<"k">>, PyList(<<DictX1>>))>>)

\* C4: in the UPDATE builder a list whose members are nested Records renders
\* each member as STRUCT(<assignments>) with the trailing ", " stripped, so
\* {k: [{"x": 1}]} yields k = [STRUCT(x = 1)] and the output holds no ", )"
\* and no ", ]".
C4_StructSeparatorsStripped ==
    (/\ Done("parse_update_query_data")
     /\ Plain(data)
     /\ \E i \in 1..Len(data.items) :
            /\ data.items[i].t = "list"
            /\ data.items[i].items # <<>>
            /\ \A j \in 1..Len(data.items[i].items) : data.items[i].items[j].t = "dict")
    =>  /\ ~Contains(out, <<",", " ", ")">>)
        /\ ~Contains(out, <<",", " ", "]">>)
        /\ data = StructExample => out = UpdateHead \o <<"k", " ", "=", " ", "[", "S", "T", "R", "U", "C", "T", "(", "x", " ", "=", " ", "1", ")", "]", ",", " ">>

\* C5: in the INSERT value builder a list renders as [e1, e2, ...], every
\* member formatted as a top-level value of its kind is (a Record as its
\* parenthesized value tuple, a str holding https:// double-quoted, another
\* str bare, an int bare, None or an unsupported value as NULL), joined by
\* ", " with no trailing separator.
C5_ListMembersFormatted ==
    (Done("parse_insert_query_data") /\ Plain(data)) =>
        \A i \in 1..Len(data.items) :
            data.items[i].t = "list" =>
                TopLevelSplit(InsertParts(out).vals)[i] =
                    <<"[">>
                    \o Join([j \in 1..Len(data.items[i].items) |->
                                Formatted(data.items[i].items[j])], <<",", " ">>)
                    \o <<"]">>

RECURSIVE Leaves(_, _)
\* the non-Record values of a Record in iteration order, each with the
\* dot-joined path of keys that leads to it
Leaves(items, prefix) ==
    IF items = <<>> THEN <<>>
    ELSE LET path == IF prefix = <<>> THEN Head(items).k
                     ELSE prefix \o <<".">> \o Head(items).k
         IN  (IF Head(items).t = "dict"
              THEN Leaves(Head(items).items, path)
              ELSE <<[path |-> path, value |-> Head(items)]>>)
             \o Leaves(Tail(items), prefix)

\* C6: for a Record with nested Records the UPDATE builder emits exactly one
\* assignment per leaf value, in iteration order, whose left-hand side is the
\* dot-joined path of keys down to the leaf ({"a": 1, "b": {"c": 2}} gives
\* a = 1, b.c = 2); the INSERT value builder renders a nested Record as a
\* parenthesized tuple with one position per entry ((1, (2))).
C6_NestedRecordsFlattened ==
    Plain(data) =>
        /\ Done("parse_update_query_data") =>
              LET assignments == UpdateAssignments(out)
                  leaves      == Leaves(data.items, <<>>)
              IN  /\ Len(assignments) = Len(leaves)
                  /\ \A i \in 1..Len(leaves) :
                        StartsWith(assignments[i], leaves[i].path \o <<" ", "=", " ">>)
                  /\ data = NestedExample => out = UpdateHead \o <<"a", " ", "=", " ", "1", ",", " ", "b", ".", "c", " ", "=", " ", "2", ",", " ">>
        /\ Done("parse_insert_query_data") =>
              /\ \A i \in 1..Len(data.items) :
                    data.items[i].t = "dict" =>
                        LET piece == TopLevelSplit(InsertParts(out).vals)[i]
                            inner == SubSeq(piece, 2, Len(piece) - 1)
                        IN  /\ piece = <<"(">> \o inner \o <<")">>
                            /\ data.items[i].items # <<>> =>
                                  Len(TopLevelSplit(inner)) = Len(data.items[i].items)
              /\ data = NestedExample => InsertParts(out).vals = <<"1", ",", " ", "(", "2", ")">>

----------------------------------------------------------------------------
(* C7, C8: the dispatcher *)

\* the query kind of the call: the argument, SELECT when it is not passed
QueryKind == IF kwargs.query_type.some THEN kwargs.query_type.s ELSE <<"S", "E", "L", "E", "C", "T">>
Supplied(arg) == arg.some /\ arg.s # <<>>

\* C7: for every query kind other than SELECT, INSERT and UPDATE
\* generate_sql_query raises ValueError and returns no statement, whatever the
\* other arguments are; for the three recognised kinds it does not raise it.
C7_UnknownKindRaises ==
    Done("generate_sql_query") =>
        IF QueryKind \in {<<"S", "E", "L", "E", "C", "T">>, <<"I", "N", "S", "E", "R", "T">>, <<"U", "P", "D", "A", "T", "E">>}
        THEN err # "ValueError"
        ELSE err = "ValueError" /\ out = <<>>

C7_Witness ==
    /\ Done("generate_sql_query")
    /\ QueryKind = <<"D", "E", "L", "E", "T", "E">>
    /\ err = "ValueError"
    /\ kwargs.data.t = "dict"
    /\ Supplied(kwargs.query_where)
    /\ Supplied(kwargs.query_selector)

----------------------------------------------------------------------------
(* C9, C10: BigQuery field names *)

\* C9: for every input string str_to_gbq_field_name returns a field name that
\* holds only letters, digits and underscores, is at most 128 characters long
\* and does not start with a digit.
C9_FieldNameCompliant ==
    Done("str_to_gbq_field_name") =>
        /\ err = ""
        /\ Len(out) <= 128
        /\ \A i \in 1..Len(out) :
              out[i] \in AsciiLetters \cup UnicodeLetters \cup AsciiDigits \cup {"_"}
        /\ out # <<>> => out[1] \notin AsciiDigits

\* C10: the dict to_gbq_keys returns has exactly as many entries as its
\* argument, and every entry (k, v) of the argument appears in it as
\* (str_to_gbq_field_name(k), v).
C10_EntriesPreserved ==
    (Done("to_gbq_keys") /\ err = "") =>
        /\ Len(new_obj) = Len(obj)
        /\ \A i \in 1..Len(obj) :
              \E j \in 1..Len(new_obj) :
                  /\ new_obj[j].k = str_to_gbq_field_name(obj[i].k).ret
                  /\ new_obj[j].v = obj[i].v

----------------------------------------------------------------------------
(* C11: drop_empty_iters *)

\* an empty list, an empty dict or None
EmptyContainerOrNone(v) ==
    \/ v.t = "none"
    \/ v.t = "list" /\ v.items = <<>>
    \/ v.t = "dict" /\ v.items = <<>>

RECURSIVE WithoutEmpties(_), KeepNonEmpty(_)
\* the structure without its empty containers: applied recursively, a dict
\* entry or list member is removed exactly when it is, after pruning, an
\* empty list, an empty dict or None; everything else keeps its place
WithoutEmpties(v) ==
    IF v.t \in {"list", "dict"}
    THEN [v EXCEPT !.items = KeepNonEmpty(v.items)]
    ELSE v

KeepNonEmpty(items) ==
    IF items = <<>> THEN <<>>
    ELSE LET v == WithoutEmpties(Head(items))
         IN  (IF EmptyContainerOrNone(v) THEN <<>> ELSE <<v>>)
             \o KeepNonEmpty(Tail(items))

\* C11: drop_empty_iters returns its argument minus the empty containers: the
\* only dict entries and list members it removes are those that are, after
\* pruning, an empty list, an empty dict or None; every other entry and
\* member, scalars such as 0, False and the empty string included, is kept
\* with its value and in its original order.
C11_OnlyEmptiesDropped ==
    Done("drop_empty_iters") => pruned = WithoutEmpties(data)

----------------------------------------------------------------------------
(* C12: the existence SELECT reporting not-found *)

\* C12: when the query service reports not-found for the existence SELECT,
\* as a NotFound error (run_bq_query then returns None) or as a result of
\* zero rows, and raises no other error, insert_or_update completes and
\* returns a result message instead of ending with an unhandled exception.
C12_NotFoundTolerated ==
    (/\ Done("insert_or_update")
     /\ \/ check_for_rows = "None"
        \/ check_for_rows = "RowIterator" /\ total_rows = 0
     /\ err # "GoogleAPIError")
    =>  /\ err = ""
        /\ \/ StartsWith(out, <<"I", "N", "S", "E", "R", "T", " ", "s", "u", "c", "c", "e", "s", "s", "f", "u", "l", " ", "f", "o", "r", " ", "t", "i", "c", "k", "e", "t", " ", "m", "e", "t", "r", "i", "c", " ">>)
           \/ StartsWith(out, <<"I", "N", "S", "E", "R", "T", " ", "f", "a", "i", "l", "e", "d", " ", "f", "o", "r", " ", "t", "i", "c", "k", "e", "t", " ", "m", "e", "t", "r", "i", "c", " ">>)
           \/ StartsWith(out, <<"U", "P", "D", "A", "T", "E", " ", "s", "u", "c", "c", "e", "s", "s", "f", "u", "l", " ", "f", "o", "r", " ", "t", "i", "c", "k", "e", "t", " ", "m", "e", "t", "r", "i", "c", " ">>)
           \/ StartsWith(out, <<"U", "P", "D", "A", "T", "E", " ", "f", "a", "i", "l", "e", "d", " ", "f", "o", "r", " ", "t", "i", "c", "k", "e", "t", " ", "m", "e", "t", "r", "i", "c", " ">>)

----------------------------------------------------------------------------
(* C13: the column list builder *)

\* C13: parse_insert_columns called on a Record alone returns the Record's
\* top-level keys in iteration order, joined by ", ", enclosed in parentheses
\* and followed by one space; for the empty Record it returns "() ".
C13_ColumnList ==
    Done("parse_insert_columns") =>
        out = <<"(">> \o Join(Keys(data), <<",", " ">>) \o <<")", " ">>

====
